---- MODULE Spec2Model ----
(***************************************************************************)
(* Model of internal/tui/scripts/check_theme_parity.py: three flat-file    *)
(* parsers, the per-theme reporter check_parity and the module-level       *)
(* discovery loop.  A Python str is a sequence of one-character strings,   *)
(* a dict is a function whose domain is its key set, None / a value is a   *)
(* sequence of length 0 / 1.                                               *)
(***************************************************************************)
EXTENDS Naturals, Sequences, FiniteSets, TLC

VARIABLES fs, pc, themes, idx, out, err, locals, arg, ret

vars == <<fs, pc, themes, idx, out, err, locals, arg, ret>>

\* ------------------------------------------------------------------ bounds
\* longest line of an exhaustively enumerated one-line file
MaxLineLen == 5
\* most lines of a file built from PoolLines
MaxLines == 2
\* most entries of the dialog root
MaxThemes == 2

\* --------------------------------------------------------- str primitives
\* characters str.strip() removes (the ones a text line can hold)
Whitespace == {" ", "\t", "\n"}

\* the character set of .strip("'\"")
QuoteChars == {"'", "\""}

RECURSIVE lstrip(_, _)
lstrip(s, cs) ==
  IF s # <<>> /\ Head(s) \in cs THEN lstrip(Tail(s), cs) ELSE s

RECURSIVE rstrip(_, _)
rstrip(s, cs) ==
  IF s # <<>> /\ s[Len(s)] \in cs THEN rstrip(SubSeq(s, 1, Len(s) - 1), cs) ELSE s

\* str.strip(chars)
strip(s, cs) == rstrip(lstrip(s, cs), cs)

\* c in s, for a one-character c
HasChar(c, s) == \E i \in 1..Len(s) : s[i] = c

\* s.find(c, from): the first index >= from holding c, 0 when there is none
RECURSIVE find(_, _, _)
find(s, c, from) ==
  IF from > Len(s) THEN 0
  ELSE IF s[from] = c THEN from
  ELSE find(s, c, from + 1)

\* line.rsplit('=', 1): the split at the last '='
split_eq_last(line) ==
  LET i == CHOOSE j \in 1..Len(line) :
             line[j] = "=" /\ \A m \in (j + 1)..Len(line) : line[m] # "="
  IN  <<SubSeq(line, 1, i - 1), SubSeq(line, i + 1, Len(line))>>

\* line.split('=', 1) of a line that holds '=': <<key, val>>
split_eq(line) ==
  LET i == find(line, "=", 1)
  IN  <<SubSeq(line, 1, i - 1), SubSeq(line, i + 1, Len(line))>>

\* s.split(','): always at least one part
RECURSIVE split_comma(_)
split_comma(s) ==
  LET i == find(s, ",", 1)
  IN  IF i = 0 THEN <<s>>
      ELSE <<SubSeq(s, 1, i - 1)>> \o split_comma(SubSeq(s, i + 1, Len(s)))

\* line.startswith('#')
startswith_hash(line) == line # <<>> /\ line[1] = "#"

\* the search with [^)]* for [^)]+: an empty group matches too
RECURSIVE re_search_star_from(_, _)
re_search_star_from(val, p) ==
  IF p > Len(val) THEN <<>>
  ELSE IF val[p] # "(" THEN re_search_star_from(val, p + 1)
  ELSE LET q == find(val, ")", p + 1)
       IN  IF q = 0 THEN <<>> ELSE <<SubSeq(val, p + 1, q - 1)>>

re_search_star(val) == re_search_star_from(val, 1)

\* re.search(r'\(([^)]+)\)', val) tried at start positions p, p+1, ...: the
\* match object as a sequence holding group(1), or <<>> for no match.  At a
\* '(' the greedy [^)]+ runs to the next ')' and needs one character or more.
RECURSIVE re_search_from(_, _)
re_search_from(val, p) ==
  IF p > Len(val) THEN <<>>
  ELSE IF val[p] # "(" THEN re_search_from(val, p + 1)
  ELSE LET q == find(val, ")", p + 1)
       IN  IF q = 0 THEN <<>>
           ELSE IF q = p + 1 THEN re_search_from(val, p + 1)
           ELSE <<SubSeq(val, p + 1, q - 1)>>

re_search(val) == re_search_from(val, 1)

\* ------------------------------------------------------------------- files
\* what a path names: nothing, a file open() refuses, or a text file
Absent == [st |-> "absent", lines |-> <<>>]
Unreadable == [st |-> "unreadable", lines |-> <<>>]
TextFile(ls) == [st |-> "file", lines |-> ls]

\* `for line in f`: every line comes with its terminator
ReadLine(f, i) == f.lines[i] \o <<"\n">>

EmptyDict == [k \in {} |-> <<>>]

\* colors.setdefault(key, value): a key keeps its first value
DictSetDefault(d, key, value) ==
  [k \in DOMAIN d \cup {key} |-> IF k \in DOMAIN d THEN d[k] ELSE value]

\* colors[key] = value
DictSet(d, key, value) ==
  [k \in DOMAIN d \cup {key} |-> IF k = key THEN value ELSE d[k]]

Returned(d) == [raised |-> "none", val |-> d]
Raised(e) == [raised |-> e, val |-> EmptyDict]

\* ----------------------------------------------------------------- parsers
RECURSIVE ds2theme_loop(_, _, _)
ds2theme_loop(f, i, colors) ==
  IF i > Len(f.lines) THEN colors
  ELSE LET line == ReadLine(f, i)
       IN  IF HasChar("=", line)
           THEN LET kv == split_eq(line)
                IN  ds2theme_loop(f, i + 1,
                      DictSet(colors, strip(kv[1], Whitespace),
                              strip(strip(kv[2], Whitespace), QuoteChars)))
           ELSE ds2theme_loop(f, i + 1, colors)

\* a parser that opens the path without looking whether it exists
parse_ds2theme_unguarded(f) ==
  IF f.st = "absent" THEN Raised("FileNotFoundError")
  ELSE IF f.st = "unreadable" THEN Raised("PermissionError")
  ELSE Returned(ds2theme_loop(f, 1, EmptyDict))

parse_ds2theme(f) ==
  IF f.st = "absent" THEN Returned(EmptyDict)
  ELSE IF f.st = "unreadable" THEN Raised("PermissionError")
  ELSE Returned(ds2theme_loop(f, 1, EmptyDict))

\* the parts of a group with the empty ones dropped
NonEmptyStr(x) == x # <<>>
group_value_nonempty(interior) == SelectSeq(split_comma(interior), NonEmptyStr)

\* the value of a parenthesized group: the parts of its interior
group_value(interior) == split_comma(interior)

RECURSIVE dialogrc_loop(_, _, _)
dialogrc_loop(f, i, colors) ==
  IF i > Len(f.lines) THEN colors
  ELSE LET line == ReadLine(f, i)
       IN  IF HasChar("=", line) /\ HasChar("(", line)
           THEN LET kv == split_eq(line)
                    match == re_search(kv[2])
                IN  IF match # <<>>
                    THEN dialogrc_loop(f, i + 1,
                           DictSet(colors, strip(kv[1], Whitespace),
                                   group_value(match[1])))
                    ELSE dialogrc_loop(f, i + 1, colors)
           ELSE dialogrc_loop(f, i + 1, colors)

parse_dialogrc(f) ==
  IF f.st = "absent" THEN Returned(EmptyDict)
  ELSE IF f.st = "unreadable" THEN Raised("PermissionError")
  ELSE Returned(dialogrc_loop(f, 1, EmptyDict))

\* the comment test made after the leading whitespace
ini_line_ok_lstrip(line) ==
  HasChar("=", line) /\ ~startswith_hash(lstrip(line, Whitespace))

\* the test that lets a line of theme.ini through
ini_line_ok(line) == HasChar("=", line) /\ ~startswith_hash(line)

RECURSIVE ini_loop(_, _, _)
ini_loop(f, i, vals) ==
  IF i > Len(f.lines) THEN vals
  ELSE LET line == ReadLine(f, i)
       IN  IF ini_line_ok(line)
           THEN LET kv == split_eq(line)
                IN  ini_loop(f, i + 1,
                      DictSet(vals, strip(kv[1], Whitespace),
                              strip(strip(kv[2], Whitespace), QuoteChars)))
           ELSE ini_loop(f, i + 1, vals)

parse_theme_ini(f) ==
  IF f.st = "absent" THEN Returned(EmptyDict)
  ELSE IF f.st = "unreadable" THEN Raised("PermissionError")
  ELSE Returned(ini_loop(f, 1, EmptyDict))

\* ------------------------------------------------- inputs of the parsers
\* characters that decide parse_ds2theme and parse_theme_ini
AlphaKV == {"a", "=", " ", "'", "\"", "#"}

\* characters that decide parse_dialogrc
AlphaRC == {"a", "=", "(", ")", ",", " "}

\* every str over alphabet A of length n or less
StrsUpTo(A, n) == UNION {[1..m -> A] : m \in 0..n}

\* longer lines the files of several lines are built from
SampleLines == {
    <<"a", "=", "b", "=", "c">>,                          \* a=b=c
    <<" ", "a", " ", "=", " ", "'", "b", "'", " ">>,      \*  a = 'b'
    <<"a", "=", "\"", "b", "'">>,                         \* a="b'
    <<"#", "a", "=", "b">>,                               \* #a=b
    <<"a", "=", "(", "b", ",", "c", ",", "d", ")">>,      \* a=(b,c,d)
    <<"a", "=", "(", ")", "(", "b", ")">>,                \* a=()(b)
    <<"a", " ", "=", "(", "b">>,                          \* a =(b
    <<"a", "=", "(", "b", ")">>,                          \* a=(b)
    <<"a", "=", "(", " ", "x", ",", "y", " ", ")">>,      \* a=( x,y )
    <<"a", "\t", "=", "\t", "b">> }                       \* a<TAB>=<TAB>b

PoolLines == StrsUpTo({"a", "="}, MaxLineLen - 2) \cup SampleLines

\* the files the parsers are called on: a one-line file over either
\* alphabet, a file of pool lines, a missing path, an unreadable file
IsParseInput(f) ==
  \/ \E m \in 0..MaxLineLen : \E l \in [1..m -> AlphaKV] : f = TextFile(<<l>>)
  \/ \E m \in 0..MaxLineLen : \E l \in [1..m -> AlphaRC] : f = TextFile(<<l>>)
  \/ \E m \in 0..MaxLines : \E ls \in [1..m -> PoolLines] : f = TextFile(ls)
  \/ f \in {Absent, Unreadable}

NoFs == [rootA |-> FALSE, rootB |-> FALSE, A |-> EmptyDict, B |-> EmptyDict]
NoLocals == [name |-> <<>>, go |-> <<>>, ini |-> <<>>, rc |-> <<>>]
NoRet == [fn |-> "", res |-> Returned(EmptyDict)]

\* a parser is called on one path and returns or raises
ParseInit ==
  /\ IsParseInput(arg)
  /\ pc = "call"
  /\ ret = NoRet
  /\ fs = NoFs /\ themes = <<>> /\ idx = 0 /\ out = <<>> /\ err = "none"
  /\ locals = NoLocals

CallParseDs2theme ==
  /\ pc = "call"
  /\ ret' = [fn |-> "parse_ds2theme", res |-> parse_ds2theme(arg)]
  /\ pc' = "returned"
  /\ UNCHANGED <<fs, themes, idx, out, err, locals, arg>>

CallParseThemeIni ==
  /\ pc = "call"
  /\ ret' = [fn |-> "parse_theme_ini", res |-> parse_theme_ini(arg)]
  /\ pc' = "returned"
  /\ UNCHANGED <<fs, themes, idx, out, err, locals, arg>>

CallParseDialogrc ==
  /\ pc = "call"
  /\ ret' = [fn |-> "parse_dialogrc", res |-> parse_dialogrc(arg)]
  /\ pc' = "returned"
  /\ UNCHANGED <<fs, themes, idx, out, err, locals, arg>>

ParseNext == CallParseDs2theme \/ CallParseThemeIni \/ CallParseDialogrc

SpecParse == ParseInit /\ [][ParseNext]_vars

\* ------------------------------------------- reference reading of a line
SetMin(S) == CHOOSE x \in S : \A y \in S : x <= y
SetMax(S) == CHOOSE x \in S : \A y \in S : y <= x

\* s without its leading and trailing run of characters of cs
Trimmed(s, cs) ==
  LET keep == {i \in 1..Len(s) : s[i] \notin cs}
  IN  IF keep = {} THEN <<>> ELSE SubSeq(s, SetMin(keep), SetMax(keep))

EqLines(ls) == {i \in 1..Len(ls) : \E j \in 1..Len(ls[i]) : ls[i][j] = "="}
FirstEq(l) == SetMin({j \in 1..Len(l) : l[j] = "="})
LeftOf(l) == SubSeq(l, 1, FirstEq(l) - 1)
RightOf(l) == SubSeq(l, FirstEq(l) + 1, Len(l))
RefKey(l) == Trimmed(LeftOf(l), Whitespace)
RefValue(l) == Trimmed(Trimmed(RightOf(l), Whitespace), QuoteChars)

ParserReturned(fn) == pc = "returned" /\ ret.fn = fn /\ arg.st = "file"

\* C5: parse_ds2theme returns, for every file, the mapping that holds for
\* each line with '=' the left side of its first '=' trimmed of whitespace,
\* mapped to the right side trimmed of whitespace and then of quote
\* characters (the last such line of a key giving its value); lines
\* without '=' give no entry.
C5_Ds2themeReference ==
  ParserReturned("parse_ds2theme") =>
    LET ls == arg.lines
        E == EqLines(ls)
        d == ret.res.val
    IN  /\ ret.res.raised = "none"
        /\ DOMAIN d = {RefKey(ls[i]) : i \in E}
        /\ \A k \in DOMAIN d :
             d[k] = RefValue(ls[SetMax({i \in E : RefKey(ls[i]) = k})])

\* the line a=b=c was parsed to {a: b=c}, the line  a = 'b'  to {a: b}
C5_Witness ==
  /\ ParserReturned("parse_ds2theme")
  /\ arg.lines = << <<"a", "=", "b", "=", "c">>,
                    <<" ", "a", " ", "=", " ", "'", "b", "'", " ">> >>
  /\ ret.res.val = [k \in {<<"a">>} |-> <<"b">>]

NotComment(l) == ~(l # <<>> /\ l[1] = "#")

\* C6: parse_theme_ini of a file equals parse_ds2theme of the same file with
\* the lines that start with '#' removed.
C6_IniIsDs2themeWithoutComments ==
  ParserReturned("parse_theme_ini") =>
    ret.res = parse_ds2theme(TextFile(SelectSeq(arg.lines, NotComment)))

\* a comment line holding '=' was dropped and the line after it parsed
C6_Witness ==
  /\ ParserReturned("parse_theme_ini")
  /\ arg.lines = << <<"#", "a", "=", "b">>, <<"a", "=", "b", "=", "c">> >>
  /\ ret.res.val = [k \in {<<"a">>} |-> <<"b", "=", "c">>]

\* the parser the last call ran
ParserOf(fn, f) ==
  IF fn = "parse_ds2theme" THEN parse_ds2theme(f)
  ELSE IF fn = "parse_theme_ini" THEN parse_theme_ini(f)
  ELSE parse_dialogrc(f)

\* what line i of the file yields when it is the only line
LineEntries(i) == ParserOf(ret.fn, TextFile(<<arg.lines[i]>>)).val

\* C8: in all three parsers the mapping of a file holds exactly the keys
\* its lines yield, each with the value of the last line that yields it.
C8_LastDuplicateWins ==
  (pc = "returned" /\ arg.st = "file") =>
    LET d == ret.res.val
        n == Len(arg.lines)
    IN  /\ DOMAIN d = UNION {DOMAIN LineEntries(i) : i \in 1..n}
        /\ \A k \in DOMAIN d :
             d[k] = LineEntries(SetMax({i \in 1..n : k \in DOMAIN LineEntries(i)}))[k]

\* two lines gave the same key different values and the later one was kept
C8_Witness ==
  /\ pc = "returned" /\ arg.st = "file"
  /\ \E i, j \in 1..Len(arg.lines) : \E k \in DOMAIN LineEntries(i) :
       /\ i < j /\ j = Len(arg.lines)
       /\ k \in DOMAIN LineEntries(j)
       /\ LineEntries(i)[k] # LineEntries(j)[k]
       /\ ret.res.val[k] = LineEntries(j)[k]

\* ----------------------------------------- reference reading of a group
\* lines parse_dialogrc looks at: those holding '=' and '('
RcLines(ls) ==
  {i \in EqLines(ls) : \E j \in 1..Len(ls[i]) : ls[i][j] = "("}

Closers(r, p) == {q \in (p + 1)..Len(r) : r[q] = ")"}

\* starts of a parenthesized group of r: a '(' with a ')' after it
GroupStarts(r) == {p \in 1..Len(r) : r[p] = "(" /\ Closers(r, p) # {}}

\* starts of a group whose interior is not empty
FullGroupStarts(r) == {p \in GroupStarts(r) : r[p + 1] # ")"}

\* the interior of the group that starts at p: up to the first ')'
Interior(r, p) == SubSeq(r, p + 1, SetMin(Closers(r, p)) - 1)

Commas(s) == {i \in 1..Len(s) : s[i] = ","}

\* s cut at its commas, the pieces kept as they are
CommaParts(s) ==
  LET C == Commas(s)
      cut(k) == IF k = 0 THEN 0
                ELSE IF k = Cardinality(C) + 1 THEN Len(s) + 1
                ELSE CHOOSE c \in C : Cardinality({x \in C : x < c}) = k - 1
  IN  [k \in 1..(Cardinality(C) + 1) |-> SubSeq(s, cut(k - 1) + 1, cut(k) - 1)]

\* C7 as first stated: the value of a line is taken from the first
\* parenthesized group of its right side, whatever the group holds.
C7_FirstGroupAsStated ==
  ParserReturned("parse_dialogrc") =>
    LET ls == arg.lines
        G == {i \in RcLines(ls) : GroupStarts(RightOf(ls[i])) # {}}
        value(i) == LET r == RightOf(ls[i])
                    IN  CommaParts(Interior(r, SetMin(GroupStarts(r))))
        d == ret.res.val
    IN  /\ ret.res.raised = "none"
        /\ DOMAIN d = {RefKey(ls[i]) : i \in G}
        /\ \A k \in DOMAIN d :
             d[k] = value(SetMax({i \in G : RefKey(ls[i]) = k}))

\* the lines of the file that yield an entry, and the interior each yields
YieldingLines(ls) == {i \in RcLines(ls) : FullGroupStarts(RightOf(ls[i])) # {}}
YieldedInterior(l) == Interior(RightOf(l), SetMin(FullGroupStarts(RightOf(l))))

\* C7: for each line holding '=' and '(' the key is the trimmed left side of
\* the first '=' and the value is the interior, up to the first ')', of the
\* first group of the right side whose interior is not empty, cut at its
\* commas with the parts untrimmed; a line without such a group (no
\* parentheses, no closing ')', only empty groups) gives no entry, no error.
C7_FirstNonEmptyGroup ==
  ParserReturned("parse_dialogrc") =>
    LET ls == arg.lines
        G == YieldingLines(ls)
        d == ret.res.val
    IN  /\ ret.res.raised = "none"
        /\ DOMAIN d = {RefKey(ls[i]) : i \in G}
        /\ \A k \in DOMAIN d :
             d[k] = CommaParts(YieldedInterior(ls[SetMax({i \in G : RefKey(ls[i]) = k})]))

\* a=()(b) was parsed to {a: [b]} and a=( x,y ) to untrimmed parts
C7_Witness ==
  /\ ParserReturned("parse_dialogrc")
  /\ \/ /\ arg.lines = << <<"a", "=", "(", ")", "(", "b", ")">> >>
        /\ ret.res.val = [k \in {<<"a">>} |-> << <<"b">> >>]
     \/ /\ arg.lines = << <<"a", "=", "(", " ", "x", ",", "y", " ", ")">> >>
        /\ ret.res.val = [k \in {<<"a">>} |-> << <<" ", "x">>, <<"y", " ">> >>]

\* C9 as first stated: every value of the dialog map has three parts.
C9_EveryValueATriple ==
  ParserReturned("parse_dialogrc") =>
    \A k \in DOMAIN ret.res.val : Len(ret.res.val[k]) = 3

\* C9: every value of the dialog map is a sequence of one part or more, one
\* more than the commas of the group it was read from: three parts exactly
\* when that group holds two commas.
C9_OnePartPerField ==
  ParserReturned("parse_dialogrc") =>
    LET ls == arg.lines
        G == YieldingLines(ls)
        d == ret.res.val
    IN  \A k \in DOMAIN d :
          LET from == YieldedInterior(ls[SetMax({i \in G : RefKey(ls[i]) = k})])
          IN  /\ Len(d[k]) >= 1
              /\ Len(d[k]) = Cardinality(Commas(from)) + 1
              /\ (Len(d[k]) = 3) <=> (Cardinality(Commas(from)) = 2)

\* a group of one field gave a value of one part
C9_Witness ==
  /\ ParserReturned("parse_dialogrc")
  /\ arg.lines = << <<"a", "=", "(", "b", ",", "c", ",", "d", ")">>,
                    <<"a", "=", "(", "b", ")">> >>
  /\ ret.res.val = [k \in {<<"a">>} |-> << <<"b">> >>]

\* ------------------------------------------------------ text constants
\* the literal "--- Checking "
S_CheckingOpen ==
  <<"-", "-", "-", " ", "C", "h", "e", "c", "k", "i", "n", "g", " ">>

\* the literal " ---"
S_CheckingClose ==
  <<" ", "-", "-", "-">>

\* the literal "Go Title: "
S_GoTitle ==
  <<"G", "o", " ", "T", "i", "t", "l", "e", ":", " ">>

\* the literal "Bash Title: "
S_BashTitle ==
  <<"B", "a", "s", "h", " ", "T", "i", "t", "l", "e", ":", " ">>

\* the literal "Bash dialogrc Title: "
S_RcTitle ==
  <<"B", "a", "s", "h", " ", "d", "i", "a", "l", "o", "g", "r", "c", " ",
    "T", "i", "t", "l", "e", ":", " ">>

\* the literal "Bash dialogrc Screen: "
S_RcScreen ==
  <<"B", "a", "s", "h", " ", "d", "i", "a", "l", "o", "g", "r", "c", " ",
    "S", "c", "r", "e", "e", "n", ":", " ">>

\* str(None)
S_None ==
  <<"N", "o", "n", "e">>

\* Title
K_Title ==
  <<"T", "i", "t", "l", "e">>

\* Subtitle
K_Subtitle ==
  <<"S", "u", "b", "t", "i", "t", "l", "e">>

\* TitleSuccess
K_TitleSuccess ==
  <<"T", "i", "t", "l", "e", "S", "u", "c", "c", "e", "s", "s">>

\* TitleError
K_TitleError ==
  <<"T", "i", "t", "l", "e", "E", "r", "r", "o", "r">>

\* TitleWarning
K_TitleWarning ==
  <<"T", "i", "t", "l", "e", "W", "a", "r", "n", "i", "n", "g">>

\* title_color
K_title_color ==
  <<"t", "i", "t", "l", "e", "_", "c", "o", "l", "o", "r">>

\* screen_color
K_screen_color ==
  <<"s", "c", "r", "e", "e", "n", "_", "c", "o", "l", "o", "r">>

\* black
S_black ==
  <<"b", "l", "a", "c", "k">>

\* the token ${_W_}
Tok_W ==
  <<"$", "{", "_", "W", "_", "}">>

\* the token ${_G_}
Tok_G ==
  <<"$", "{", "_", "G", "_", "}">>

\* the token ${_C_}
Tok_C ==
  <<"$", "{", "_", "C", "_", "}">>

\* the token ${_M_}
Tok_M ==
  <<"$", "{", "_", "M", "_", "}">>

\* the token ${_Y_}
Tok_Y ==
  <<"$", "{", "_", "Y", "_", "}">>

\* the token ${_R_}
Tok_R ==
  <<"$", "{", "_", "R", "_", "}">>

\* the token ${_B_}
Tok_B ==
  <<"$", "{", "_", "B", "_", "}">>

\* the token ${_K_}
Tok_K ==
  <<"$", "{", "_", "K", "_", "}">>

\* the token ${_RV_}
Tok_RV ==
  <<"$", "{", "_", "R", "V", "_", "}">>

\* the letters str.lower() changes
UpperChars ==
  <<"A", "B", "C", "D", "E", "F", "G", "H", "I", "J", "K", "L", "M", "N",
    "O", "P", "Q", "R", "S", "T", "U", "V", "W", "X", "Y", "Z">>

\* and what it changes them to
LowerChars ==
  <<"a", "b", "c", "d", "e", "f", "g", "h", "i", "j", "k", "l", "m", "n",
    "o", "p", "q", "r", "s", "t", "u", "v", "w", "x", "y", "z">>

\* the color names get_bash_color returns
C_NC == <<"N", "C">>
C_white == <<"w", "h", "i", "t", "e">>
C_green == <<"g", "r", "e", "e", "n">>
C_cyan == <<"c", "y", "a", "n">>
C_magenta == <<"m", "a", "g", "e", "n", "t", "a">>
C_yellow == <<"y", "e", "l", "l", "o", "w">>
C_red == <<"r", "e", "d">>
C_blue == <<"b", "l", "u", "e">>

\* ------------------------------------------------------------ formatting
\* needle in val, for str operands
Contains(needle, val) ==
  \E i \in 1..(Len(val) + 1 - Len(needle)) :
    SubSeq(val, i, i + Len(needle) - 1) = needle

lower_char(c) ==
  IF \E i \in 1..Len(UpperChars) : UpperChars[i] = c
  THEN LowerChars[CHOOSE i \in 1..Len(UpperChars) : UpperChars[i] = c]
  ELSE c

\* str.lower()
lower(s) == [i \in 1..Len(s) |-> lower_char(s[i])]

\* repr() of a str of printable characters: double quotes when it holds a
\* single quote and no double quote, single quotes otherwise; the quote in
\* use and the backslash are escaped
repr_quote(s) == IF HasChar("'", s) /\ ~HasChar("\"", s) THEN "\"" ELSE "'"

RECURSIVE repr_escape(_, _)
repr_escape(s, q) ==
  IF s = <<>> THEN <<>>
  ELSE (IF Head(s) = "\\" THEN <<"\\", "\\">>
        ELSE IF Head(s) = q THEN <<"\\", q>>
        ELSE IF Head(s) = "\t" THEN <<"\\", "t">>
        ELSE <<Head(s)>>) \o repr_escape(Tail(s), q)

repr_str(s) == <<repr_quote(s)>> \o repr_escape(s, repr_quote(s)) \o <<repr_quote(s)>>

\* repr() of a list of str
RECURSIVE repr_items(_)
repr_items(l) ==
  IF l = <<>> THEN <<>>
  ELSE IF Len(l) = 1 THEN repr_str(l[1])
  ELSE repr_str(l[1]) \o <<",", " ">> \o repr_items(Tail(l))

repr_list(l) == <<"[">> \o repr_items(l) \o <<"]">>

\* d.get(key): <<>> is None, <<v>> the value
DictGet(d, key) == IF key \in DOMAIN d THEN <<d[key]>> ELSE <<>>

\* what an f-string shows for d.get(key) of a str-valued dict
fmt_str(o) == IF o = <<>> THEN S_None ELSE o[1]

\* what an f-string shows for d.get(key) of a list-valued dict
fmt_list(o) == IF o = <<>> THEN S_None ELSE repr_list(o[1])

\* ----------------------------------------------------------- check_parity
\* screen_bg, or the IndexError of rc['screen_color'][1]
screen_bg(rc) ==
  IF K_screen_color \in DOMAIN rc
  THEN IF Len(rc[K_screen_color]) < 2
       THEN [raised |-> "IndexError", val |-> <<>>]
       ELSE [raised |-> "none",
             val |-> lower(strip(rc[K_screen_color][2], Whitespace))]
  ELSE [raised |-> "none", val |-> S_black]

get_bash_color(val) ==
  LET res == IF Contains(Tok_W, val) THEN C_white
             ELSE IF Contains(Tok_G, val) THEN C_green
             ELSE IF Contains(Tok_C, val) THEN C_cyan
             ELSE IF Contains(Tok_M, val) THEN C_magenta
             ELSE IF Contains(Tok_Y, val) THEN C_yellow
             ELSE IF Contains(Tok_R, val) THEN C_red
             ELSE IF Contains(Tok_B, val) THEN C_blue
             ELSE IF Contains(Tok_K, val) THEN S_black
             ELSE C_NC
      is_rev == Contains(Tok_RV, val)
  IN  <<res, is_rev>>

\* the keys the loop walks, in its order
LoopKeys == <<K_Title, K_Subtitle, K_TitleSuccess, K_TitleError, K_TitleWarning>>

\* a loop body that prints the color it computed
RECURSIVE title_loop_prints_from(_, _, _)
title_loop_prints_from(ini, go, i) ==
  IF i > Len(LoopKeys) THEN <<>>
  ELSE LET k == LoopKeys[i]
       IN  (IF k \in DOMAIN ini /\ k \in DOMAIN go
            THEN <<get_bash_color(ini[k])[1]>>
            ELSE <<>>) \o title_loop_prints_from(ini, go, i + 1)

title_loop_prints(ini, go) == title_loop_prints_from(ini, go, 1)

\* the lines the loop over LoopKeys prints: b_col and b_rev are computed
\* for the keys both maps hold, and the body is `pass`
title_loop(ini, go) ==
  LET computed == [i \in {j \in 1..Len(LoopKeys) :
                            LoopKeys[j] \in DOMAIN ini /\ LoopKeys[j] \in DOMAIN go}
                     |-> get_bash_color(ini[LoopKeys[i]])]
  IN  <<>>

header_line(name) == S_CheckingOpen \o name \o S_CheckingClose

\* the five print() calls that end check_parity
report_lines(go, ini, rc) ==
  << S_GoTitle \o fmt_str(DictGet(go, K_Title)),
     S_BashTitle \o fmt_str(DictGet(ini, K_Title)),
     S_RcTitle \o fmt_list(DictGet(rc, K_title_color)),
     S_RcScreen \o fmt_list(DictGet(rc, K_screen_color)),
     <<>> >>

\* check_parity from the three parsed maps on: what it prints, and the
\* error it ends with
check_parity_body(name, go, ini, rc) ==
  LET bg == screen_bg(rc)
  IN  IF bg.raised # "none"
      THEN [printed |-> <<header_line(name)>>, raised |-> bg.raised]
      ELSE [printed |-> <<header_line(name)>> \o title_loop(ini, go)
                          \o report_lines(go, ini, rc),
            raised |-> "none"]

\* what the three paths of a theme name
GoFile(fsys, name) ==
  IF fsys.rootA /\ name \in DOMAIN fsys.A THEN fsys.A[name] ELSE Absent
IniFile(fsys, name) ==
  IF fsys.rootB /\ name \in DOMAIN fsys.B /\ fsys.B[name].kind = "dir"
  THEN fsys.B[name].ini ELSE Absent
RcFile(fsys, name) ==
  IF fsys.rootB /\ name \in DOMAIN fsys.B /\ fsys.B[name].kind = "dir"
  THEN fsys.B[name].rc ELSE Absent

\* check_parity(name): the lines printed, the error raised, the locals
\* go, ini, rc as far as they were assigned
check_parity(name, fsys) ==
  LET go == parse_ds2theme(GoFile(fsys, name))
      ini == parse_theme_ini(IniFile(fsys, name))
      rc == parse_dialogrc(RcFile(fsys, name))
      hdr == <<header_line(name)>>
  IN  IF go.raised # "none"
      THEN [printed |-> hdr, raised |-> go.raised,
            locals |-> [name |-> name, go |-> <<>>, ini |-> <<>>, rc |-> <<>>]]
      ELSE IF ini.raised # "none"
      THEN [printed |-> hdr, raised |-> ini.raised,
            locals |-> [name |-> name, go |-> <<go.val>>, ini |-> <<>>, rc |-> <<>>]]
      ELSE IF rc.raised # "none"
      THEN [printed |-> hdr, raised |-> rc.raised,
            locals |-> [name |-> name, go |-> <<go.val>>, ini |-> <<ini.val>>,
                        rc |-> <<>>]]
      ELSE LET r == check_parity_body(name, go.val, ini.val, rc.val)
           IN  [printed |-> r.printed, raised |-> r.raised,
                locals |-> [name |-> name, go |-> <<go.val>>, ini |-> <<ini.val>>,
                            rc |-> <<rc.val>>]]

\* a listing that takes a missing directory for an empty one
listdir_or_empty(fsys) == [raised |-> "none", val |-> DOMAIN fsys.B]

\* os.listdir(BASH_THEMES_DIR): the names in the directory, or the error
\* of a missing one
listdir(fsys) ==
  IF ~fsys.rootB THEN [raised |-> "FileNotFoundError", val |-> {}]
  ELSE [raised |-> "none", val |-> DOMAIN fsys.B]

\* os.path.isdir(os.path.join(BASH_THEMES_DIR, d))
isdir(fsys, d) == fsys.B[d].kind = "dir"

\* ------------------------------------------------------ the file system
\* Title='{{|white:black:U|}}'
L_GoTitle ==
  <<"T", "i", "t", "l", "e", "=", "'", "{", "{", "|", "w", "h", "i", "t",
    "e", ":", "b", "l", "a", "c", "k", ":", "U", "|", "}", "}", "'">>

\* Subtitle='{{|cyan|}}'
L_GoSubtitle ==
  <<"S", "u", "b", "t", "i", "t", "l", "e", "=", "'", "{", "{", "|", "c",
    "y", "a", "n", "|", "}", "}", "'">>

\* # Title="old"
L_IniComment ==
  <<"#", " ", "T", "i", "t", "l", "e", "=", "\"", "o", "l", "d", "\"">>

\* Title="${_W_}${_U_}"
L_IniTitle ==
  <<"T", "i", "t", "l", "e", "=", "\"", "$", "{", "_", "W", "_", "}", "$",
    "{", "_", "U", "_", "}", "\"">>

\* screen_color = (BLACK,GREEN,ON)
L_RcScreen ==
  <<"s", "c", "r", "e", "e", "n", "_", "c", "o", "l", "o", "r", " ", "=",
    " ", "(", "B", "L", "A", "C", "K", ",", "G", "R", "E", "E", "N", ",",
    "O", "N", ")">>

\* title_color = (YELLOW,GREEN,ON)
L_RcTitle ==
  <<"t", "i", "t", "l", "e", "_", "c", "o", "l", "o", "r", " ", "=", " ",
    "(", "Y", "E", "L", "L", "O", "W", ",", "G", "R", "E", "E", "N", ",",
    "O", "N", ")">>

\* screen_color = (BLACK)
L_RcScreenShort ==
  <<"s", "c", "r", "e", "e", "n", "_", "c", "o", "l", "o", "r", " ", "=",
    " ", "(", "B", "L", "A", "C", "K", ")">>

\* the descriptor files a theme may have under root A
GoFiles == {Absent, TextFile(<<L_GoTitle>>), TextFile(<<L_GoSubtitle>>)}

\* the theme.ini files a theme may have under root B
IniFiles == {Absent, Unreadable, TextFile(<<L_IniComment, L_IniTitle>>)}

\* the .dialogrc files a theme may have under root B
RcFiles == {Absent, TextFile(<<L_RcTitle, L_RcScreen>>), TextFile(<<L_RcScreenShort>>)}

DigitChars == <<"1", "2", "3", "4", "5", "6", "7", "8", "9">>

\* the names an entry of root B may have
ThemeNames == {<<"t", DigitChars[i]>> : i \in 1..MaxThemes}

\* an entry of root B: a plain file, or a theme directory and its files
Entries ==
  {[kind |-> "file", ini |-> Absent, rc |-> Absent]}
    \cup [kind : {"dir"}, ini : IniFiles, rc : RcFiles]

\* the states of the two roots: root B with entries for some names and
\* root A with their descriptor files, or, missing, with nothing in them
IsFsState(f) ==
  \/ \E a \in BOOLEAN, N \in SUBSET ThemeNames :
       \E ga \in (IF a THEN [N -> GoFiles] ELSE [N -> {Absent}]), b \in [N -> Entries] :
         f = [rootA |-> a, rootB |-> TRUE, A |-> ga, B |-> b]
  \/ \E a \in BOOLEAN :
       f = [rootA |-> a, rootB |-> FALSE, A |-> EmptyDict, B |-> EmptyDict]

\* every order of the members of S
Orders(S) ==
  {o \in [1..Cardinality(S) -> S] : \A i, j \in DOMAIN o : i # j => o[i] # o[j]}

\* ------------------------------------------------------- the script's run
RunInit ==
  /\ IsFsState(fs)
  /\ pc = "start"
  /\ themes = <<>> /\ idx = 0 /\ out = <<>> /\ err = "none"
  /\ locals = NoLocals
  /\ arg = Absent /\ ret = NoRet

\* line 92: the listing, in whatever order the system gives it, filtered
\* to the directories; a failing listdir ends the run
Discover ==
  /\ pc = "start"
  /\ LET r == listdir(fs)
     IN  IF r.raised # "none"
         THEN /\ pc' = "crashed" /\ err' = r.raised
              /\ UNCHANGED <<themes, idx>>
         ELSE /\ \E o \in Orders({d \in r.val : isdir(fs, d)}) : themes' = o
              /\ idx' = 1 /\ pc' = "loop"
              /\ UNCHANGED err
  /\ UNCHANGED <<fs, out, locals, arg, ret>>

\* lines 93-94: one call of check_parity; an error it raises ends the run
\* with what was printed before it
CheckTheme ==
  /\ pc = "loop" /\ idx <= Len(themes)
  /\ LET r == check_parity(themes[idx], fs)
     IN  /\ out' = out \o r.printed
         /\ locals' = r.locals
         /\ IF r.raised # "none"
            THEN pc' = "crashed" /\ err' = r.raised /\ UNCHANGED idx
            ELSE idx' = idx + 1 /\ UNCHANGED <<pc, err>>
  /\ UNCHANGED <<fs, themes, arg, ret>>

\* the loop is over: the script ends normally
Finish ==
  /\ pc = "loop" /\ idx > Len(themes)
  /\ pc' = "done"
  /\ UNCHANGED <<fs, themes, idx, out, err, locals, arg, ret>>

RunNext == Discover \/ CheckTheme \/ Finish

SpecRun == RunInit /\ [][RunNext]_vars

\* ------------------------------------------------- properties of the run
Ended == pc \in {"done", "crashed"}

\* no file of a listed theme refuses to be read
AllReadable ==
  \A n \in DOMAIN fs.B :
    /\ GoFile(fs, n).st # "unreadable"
    /\ IniFile(fs, n).st # "unreadable"
    /\ RcFile(fs, n).st # "unreadable"

\* C1: when root B exists and every present theme file is readable the run
\* never crashes, and it ends with a full report block of six lines for
\* every discovered theme, whatever the theme files hold.
C1_NeverCrashes ==
  (fs.rootB /\ AllReadable) =>
    /\ pc # "crashed"
    /\ pc = "done" => Len(out) = 6 * Len(themes)

\* the block the spec describes for theme t
ExpectedBlock(t) ==
  LET go == parse_ds2theme(GoFile(fs, t)).val
      ini == parse_theme_ini(IniFile(fs, t)).val
      rc == parse_dialogrc(RcFile(fs, t)).val
  IN  << S_CheckingOpen \o t \o S_CheckingClose,
         S_GoTitle \o (IF K_Title \in DOMAIN go THEN go[K_Title] ELSE S_None),
         S_BashTitle \o (IF K_Title \in DOMAIN ini THEN ini[K_Title] ELSE S_None),
         S_RcTitle \o (IF K_title_color \in DOMAIN rc
                       THEN repr_list(rc[K_title_color]) ELSE S_None),
         S_RcScreen \o (IF K_screen_color \in DOMAIN rc
                        THEN repr_list(rc[K_screen_color]) ELSE S_None),
         <<>> >>

RECURSIVE ExpectedBlocks(_)
ExpectedBlocks(ts) ==
  IF ts = <<>> THEN <<>> ELSE ExpectedBlock(Head(ts)) \o ExpectedBlocks(Tail(ts))

\* C3: the output of a run over readable files is one block per discovered
\* theme, in the order of discovery, each block the header, the four field
\* lines in their fixed order and the blank line, never interleaved.
C3_OneBlockPerTheme ==
  (Ended /\ fs.rootB /\ AllReadable) => out = ExpectedBlocks(themes)

\* C2 as first stated: with either root missing discovery fails and
\* nothing is printed.
C2_EitherRootMissing ==
  ((~fs.rootA \/ ~fs.rootB) /\ pc # "start") =>
    pc = "crashed" /\ err = "FileNotFoundError" /\ out = <<>>

\* C2: with root B missing the discovery step raises a filesystem failure
\* and the run ends having printed nothing; with root B present discovery
\* completes, whether root A exists or not.
C2_DialogRootMissing ==
  /\ (~fs.rootB /\ pc # "start") =>
       pc = "crashed" /\ err = "FileNotFoundError" /\ out = <<>> /\ idx = 0
  /\ (fs.rootB /\ pc # "start") => idx >= 1 /\ err # "FileNotFoundError"

\* the run over a missing root B has crashed in discovery
C2_Witness == ~fs.rootB /\ pc = "crashed" /\ out = <<>>

DictOf(S) == [k \in {p[1] : p \in S} |-> (CHOOSE p \in S : p[1] = k)[2]]

\* descriptor maps: Title and Subtitle, each absent or present
PairGoMaps ==
  {DictOf(T \cup U) :
     T \in {{}, {<<K_Title, <<"x">> >>}},
     U \in {{}, {<<K_Subtitle, <<"y">> >>}}}

\* INI maps: Title and Subtitle with color and reverse-video tokens
PairIniMaps ==
  {DictOf(T \cup U) :
     T \in {{}, {<<K_Title, Tok_W \o Tok_RV>>}},
     U \in {{}, {<<K_Subtitle, Tok_G>>}, {<<K_Subtitle, Tok_K \o Tok_RV>>}}}

\* dialog maps: title_color absent or a triple, screen_color absent, of
\* one part, or a triple
PairRcMaps ==
  {DictOf(T \cup U) :
     T \in {{}, {<<K_title_color, << <<"R", "E", "D">>, <<"B", "L", "U", "E">>,
                                     <<"O", "N">> >> >>}},
     U \in {{}, {<<K_screen_color, << <<"B", "L", "A", "C", "K">> >> >>},
            {<<K_screen_color, << <<"B", "L", "A", "C", "K">>,
                                  <<" ", "G", "R", "E", "E", "N">>,
                                  <<"O", "N">> >> >>}}}

PairMaps == [go : PairGoMaps, ini : PairIniMaps, rc : PairRcMaps]

\* the theme both calls are made for
PairName == <<"t", "1">>

PairInit ==
  /\ arg \in [a : PairMaps, b : PairMaps]
  /\ pc = "call"
  /\ ret = [fn |-> "check_parity", res |-> << <<>>, <<>> >>]
  /\ fs = NoFs /\ themes = <<>> /\ idx = 0 /\ out = <<>> /\ err = "none"
  /\ locals = NoLocals

\* check_parity runs on the maps of the first run
CheckParityFirst ==
  /\ pc = "call" /\ ret.res[1] = <<>>
  /\ ret' = [ret EXCEPT !.res[1] =
               <<check_parity_body(PairName, arg.a.go, arg.a.ini, arg.a.rc)>>]
  /\ pc' = IF ret.res[2] # <<>> THEN "returned" ELSE "call"
  /\ UNCHANGED <<fs, themes, idx, out, err, locals, arg>>

\* check_parity runs on the maps of the second run
CheckParitySecond ==
  /\ pc = "call" /\ ret.res[2] = <<>>
  /\ ret' = [ret EXCEPT !.res[2] =
               <<check_parity_body(PairName, arg.b.go, arg.b.ini, arg.b.rc)>>]
  /\ pc' = IF ret.res[1] # <<>> THEN "returned" ELSE "call"
  /\ UNCHANGED <<fs, themes, idx, out, err, locals, arg>>

PairNext == CheckParityFirst \/ CheckParitySecond

SpecPair == PairInit /\ [][PairNext]_vars

\* the two runs agree on the four fields the report shows
AgreeOnReported(a, b) ==
  /\ DictGet(a.go, K_Title) = DictGet(b.go, K_Title)
  /\ DictGet(a.ini, K_Title) = DictGet(b.ini, K_Title)
  /\ DictGet(a.rc, K_title_color) = DictGet(b.rc, K_title_color)
  /\ DictGet(a.rc, K_screen_color) = DictGet(b.rc, K_screen_color)

\* C10: two runs of check_parity on the same theme name whose maps agree on
\* the descriptor Title, the INI Title, title_color and screen_color print
\* the same lines and end the same way, whatever their other keys hold.
C10_HelperIsInert ==
  (pc = "returned" /\ AgreeOnReported(arg.a, arg.b)) => ret.res[1] = ret.res[2]

\* two runs whose Subtitle values map to different colors, a key the loop
\* visits in both, printed the same full report
C10_Witness ==
  /\ pc = "returned" /\ AgreeOnReported(arg.a, arg.b)
  /\ K_Subtitle \in DOMAIN arg.a.go /\ K_Subtitle \in DOMAIN arg.b.go
  /\ K_Subtitle \in DOMAIN arg.a.ini /\ K_Subtitle \in DOMAIN arg.b.ini
  /\ get_bash_color(arg.a.ini[K_Subtitle]) = <<C_green, FALSE>>
  /\ get_bash_color(arg.b.ini[K_Subtitle]) = <<S_black, TRUE>>
  /\ ret.res[1] = ret.res[2]
  /\ ret.res[1][1].raised = "none"
  /\ Len(ret.res[1][1].printed) = 6

====
